---- MODULE Spec2Model ----
(***************************************************************************)
(* sub_notif (src/main.rs): a polling notifier.  main() loops forever:     *)
(* fetch the newest posts from reddit, then from pushshift, append the     *)
(* second list to the first, and hand the batch to pushover(), which walks *)
(* the batch in reverse, skips identifiers found in the UnQLite store and  *)
(* POSTs the others to the gateway with a bounded retry on timeouts.       *)
(***************************************************************************)
EXTENDS Integers, Sequences, FiniteSets, TLC

\* ---- bounds of the model ------------------------------------------------
\* post identifiers that exist upstream; identifier i was created at time i
NumIds == 2
\* longest list one upstream source returns (stands for NUM_POSTS); the batch
\* is two such lists
MaxLen == 1
\* the gateway stops confirming a post once it has confirmed it this often
MaxDeliveries == 2
\* store failures (kv_store or commit fails, or the process is stopped between
\* a confirmation and its commit) that may happen in one behaviour
MaxFaults == 1

\* ---- program constants --------------------------------------------------
POST_TIMEOUT_RETRY == 3

Ids == 1..NumIds

VARIABLES
    pc,         \* position of the process in main()/pushover()
    posts,      \* the batch: reddit's list followed by pushshift's list
    idx,        \* position of `for post in posts.iter().rev()` (0 = exhausted)
    attempt,    \* `for attempt in 0..POST_TIMEOUT_RETRY`
    resp,       \* resp_ok: the answer held while its body is acted on
    db,         \* the open UnQLite handle: identifiers kv_contains finds
    disk,       \* seen.udb as committed on disk
    \* -- environment and observation (not read by the program) --
    delivered,  \* per identifier: gateway answers HTTP-success + status 1, ever
    faults,     \* confirmed deliveries not followed by a successful commit
    lost,       \* identifiers whose kv_store or commit returned Err and
                \* that seen.udb does not hold (kept under audit)
    sent,       \* identifiers a request was sent for in the current call
    w,          \* an identifier of the current batch (any one), whose requests
                \* and answers in the current call are counted (0 = none)
    att,        \* requests sent for w
    tmo,        \* "timed out" lines logged for w
    okCall,     \* confirmed deliveries of w
    okAt,       \* ordinal of the request for w first confirmed (0 = none)
    tmoAtOk,    \* timeouts logged for w before that request
    netErr,     \* a request for w met a non-timeout transport error
                \* (kept under audit)
    logical,    \* a request for w was answered HTTP-success, status /= 1
                \* (kept under audit)
    st1Fail,    \* a request for w was answered status 1 without HTTP-success
    persisted,  \* what the store held when the process started
    firstCall,  \* no second pushover call has begun since the process started
    fetchErr,   \* reddit() or pushshift() returned Err in the current cycle
    audit       \* whether the observer also keeps the record of failures
                \* (netErr, logical, lost); fixed when the behaviour starts

vars == <<pc, posts, idx, attempt, resp, db, disk, delivered, faults, lost,
          sent, w,
          att, tmo, okCall, okAt, tmoAtOk, netErr, logical, st1Fail,
          persisted, firstCall, fetchErr, audit>>

\* ---- data ----------------------------------------------------------------
\* the title upstream returns for identifier i: post 1 has an HTML entity in
\* it, the others are plain text
Title(i) == IF i = 1 THEN "B&amp;B" ELSE "post"

\* the characters of a title
Chars(t) ==
    IF t = "B&amp;B" THEN <<"B", "&", "a", "m", "p", ";", "B">>
    ELSE <<"p", "o", "s", "t">>

\* struct Post: title, id and created_utc (identifiers grow with creation
\* time)
Post(i) == [title |-> Title(i), id |-> i, created_utc |-> i]

\* struct CONFIG as parsed from config.yaml: read once, never written
Configs ==
    [pushover_token : {"token"}, pushover_user : {"user"},
     subreddit : {"dreamcatcher", "foo"}]

\* what an upstream source returns on success: at most MaxLen distinct posts,
\* newest first
NewestFirst ==
    { s \in UNION { [1..n -> Ids] : n \in 0..MaxLen } :
        \A i \in 1..Len(s) : \A j \in 1..Len(s) : i < j => s[i] > s[j] }

FetchedLists == { [i \in 1..Len(s) |-> Post(s[i])] : s \in NewestFirst }

\* what `client.post(..).send().await` and the reading of the body can yield
Timeout  == [kind |-> "timeout", http_ok |-> FALSE, body |-> "none"]
NetError == [kind |-> "error",   http_ok |-> FALSE, body |-> "none"]
NoResp   == [kind |-> "none",    http_ok |-> FALSE, body |-> "none"]
Responses ==
    [kind : {"resp"}, http_ok : BOOLEAN,
     body : {"unreadable", "bad_json", "status_0", "status_1"}]

\* the gateway acknowledged acceptance: HTTP-success and body status 1
Acked(r) == r.kind = "resp" /\ r.http_ok /\ r.body = "status_1"

\* ---- the store ------------------------------------------------------------
kv_contains_never(d, id) == FALSE
kv_contains(d, id) == id \in d

kv_store_noop(d, id) == d
kv_store(d, id) == d \cup {id}

\* line 240: commit() writes what the handle holds (d) over the file (f)
commit_lost(f, d) == f
commit(f, d) == d

\* ---- pushover's decisions -------------------------------------------------
\* lines 228-237: the branch that reaches kv_store
ConfirmedAnyStatus(r) ==
    r.kind = "resp" /\ r.http_ok /\ r.body \in {"status_0", "status_1"}
ConfirmedAnyHttp(r) ==
    r.kind = "resp" /\ r.body = "status_1"
Confirmed(r) ==
    r.kind = "resp" /\ r.http_ok /\ r.body = "status_1"

\* lines 180, 218: `continue` re-enters the loop while attempts remain
RetryLeft(a) == a + 1 < POST_TIMEOUT_RETRY

\* line 249: the `break` that ends the attempt loop once an answer was handled
ContinuesAfterAnswer(a) == FALSE

\* lines 182-193: the form of the request for post p under configuration c
Params(c, p) ==
    [token     |-> c.pushover_token,
     user      |-> c.pushover_user,
     title     |-> <<"New post on r/", "dreamcatcher">>,
     message   |-> p.title,
     url       |-> <<"https://redd.it/", p.id>>,
     timestamp |-> p.created_utc]

\* line 172: posts.iter().rev() starts at the last element
FirstIndexFront(p) == IF Len(p) = 0 THEN 0 ELSE 1
FirstIndex(p) == Len(p)

zero == [i \in Ids |-> 0]

CurId == posts[idx].id

\* the state once main has parsed the configuration and opened the store for
\* the first time; a says whether failures are recorded
Start(a) ==
    /\ pc = "reddit"
    /\ posts = <<>>
    /\ idx = 0
    /\ attempt = 0
    /\ resp = NoResp
    /\ db = {}
    /\ disk = {}
    /\ delivered = zero
    /\ faults = 0
    /\ lost = {}
    /\ sent = {}
    /\ w = 0
    /\ att = 0
    /\ tmo = 0
    /\ okCall = 0
    /\ okAt = 0
    /\ tmoAtOk = 0
    /\ netErr = FALSE
    /\ logical = FALSE
    /\ st1Fail = FALSE
    /\ persisted = {}
    /\ firstCall = TRUE
    /\ fetchErr = FALSE
    /\ audit = a

Init == Start(FALSE)

\* the same start, with the record of failures kept
InitAudit == Start(TRUE)

counters == <<att, tmo, okCall, okAt, tmoAtOk, netErr, logical, st1Fail>>
callObs == <<sent, w, counters>>

ResetCall ==
    /\ sent' = {}
    /\ w' = 0
    /\ att' = 0
    /\ tmo' = 0
    /\ okCall' = 0
    /\ okAt' = 0
    /\ tmoAtOk' = 0
    /\ netErr' = FALSE
    /\ logical' = FALSE
    /\ st1Fail' = FALSE

\* ---- main ------------------------------------------------------------------
\* lines 77-78: reddit() returned Ok
FetchRedditOk ==
    /\ pc = "reddit"
    /\ \E l \in FetchedLists : posts' = l
    /\ pc' = "pushshift"
    /\ UNCHANGED <<idx, attempt, resp, db, disk, delivered, faults, lost,
                   callObs, persisted, firstCall, fetchErr, audit>>

\* lines 79-83: reddit() failed: log, sleep, continue
FetchRedditErr ==
    /\ pc = "reddit"
    /\ pc' = "sleep"
    /\ fetchErr' = TRUE
    /\ UNCHANGED <<posts, idx, attempt, resp, db, disk, delivered, faults,
                   lost, callObs, persisted, firstCall, audit>>

\* lines 87-100: pushshift() returned Ok; append; call pushover
FetchPushshiftOk ==
    /\ pc = "pushshift"
    /\ \E l \in FetchedLists :
          /\ posts' = posts \o l
          /\ idx' = FirstIndex(posts \o l)
          /\ w' \in IF Len(posts \o l) = 0 THEN {0}
                    ELSE { (posts \o l)[k].id : k \in 1..Len(posts \o l) }
    /\ pc' = "loop"
    /\ UNCHANGED <<attempt, resp, db, disk, delivered, faults, lost, sent,
                   counters, persisted, firstCall, fetchErr, audit>>

\* (a variant that dispatches reddit's list when pushshift() fails)
FetchPushshiftErrPartial ==
    /\ pc = "pushshift"
    /\ idx' = Len(posts)
    /\ w' \in IF Len(posts) = 0 THEN {0}
              ELSE { posts[k].id : k \in 1..Len(posts) }
    /\ pc' = "loop"
    /\ fetchErr' = TRUE
    /\ UNCHANGED <<posts, attempt, resp, db, disk, delivered, faults, lost,
                   sent, counters, persisted, firstCall, audit>>

\* lines 89-93: pushshift() failed: log, sleep, continue (reddit's list dropped)
FetchPushshiftErr ==
    /\ pc = "pushshift"
    /\ posts' = <<>>
    /\ pc' = "sleep"
    /\ fetchErr' = TRUE
    /\ UNCHANGED <<idx, attempt, resp, db, disk, delivered, faults, lost,
                   callObs, persisted, firstCall, audit>>

\* lines 81, 91, 103: the sleep ends and the loop starts its next cycle
Sleep ==
    /\ pc = "sleep"
    /\ pc' = "reddit"
    /\ fetchErr' = FALSE
    /\ UNCHANGED <<posts, idx, attempt, resp, db, disk, delivered, faults,
                   lost, callObs, persisted, firstCall, audit>>

\* ---- pushover ---------------------------------------------------------------
NextPost ==
    /\ idx' = idx - 1
    /\ attempt' = 0
    /\ resp' = NoResp
    /\ pc' = "loop"

\* line 249 (and the end of the loop body): leave the attempt loop
EndOfAttempt ==
    IF ContinuesAfterAnswer(attempt)
    THEN /\ attempt' = attempt + 1
         /\ resp' = NoResp
         /\ pc' = "send"
         /\ idx' = idx
    ELSE NextPost

\* line 172/252: the iterator is exhausted, pushover returns
PushoverReturn ==
    /\ pc = "loop"
    /\ idx = 0
    /\ posts' = <<>>
    /\ pc' = "sleep"
    /\ ResetCall
    /\ firstCall' = FALSE
    /\ persisted' = {}
    /\ fetchErr' = FALSE
    /\ UNCHANGED <<idx, attempt, resp, db, disk, delivered, faults, lost,
                   audit>>

\* lines 174-176: the identifier is in the store: continue
SkipSeen ==
    /\ pc = "loop"
    /\ idx > 0
    /\ kv_contains(db, CurId)
    /\ NextPost
    /\ UNCHANGED <<posts, db, disk, delivered, faults, lost, callObs,
                   persisted, firstCall, fetchErr, audit>>

\* line 178-180: a new post: enter the attempt loop
FoundNew ==
    /\ pc = "loop"
    /\ idx > 0
    /\ ~kv_contains(db, CurId)
    /\ attempt' = 0
    /\ pc' = "send"
    /\ UNCHANGED <<posts, idx, resp, db, disk, delivered, faults, lost,
                   callObs, persisted, firstCall, fetchErr, audit>>

\* lines 182-204: build the form, build the client (Ok) and send the POST
Send ==
    /\ pc = "send"
    /\ sent' = sent \cup {CurId}
    /\ att' = IF CurId = w THEN att + 1 ELSE att
    /\ pc' = "await"
    /\ UNCHANGED <<posts, idx, attempt, resp, db, disk, delivered, faults,
                   lost, w, tmo, okCall, okAt, tmoAtOk, netErr, logical,
                   st1Fail, persisted, firstCall, fetchErr, audit>>

\* lines 196-199: Client::builder()..build() is Err: unwrap() panics before
\* any request is sent
ClientBuildErr ==
    /\ pc = "send"
    /\ pc' = "panicked"
    /\ UNCHANGED <<posts, idx, attempt, resp, db, disk, delivered, faults,
                   lost, callObs, persisted, firstCall, fetchErr, audit>>

\* what an observer of the gateway and of the log records for outcome r
Observe(r) ==
    /\ delivered' = IF Acked(r) THEN [delivered EXCEPT ![CurId] = @ + 1]
                    ELSE delivered
    /\ IF CurId = w
       THEN /\ okCall' = IF Acked(r) THEN okCall + 1 ELSE okCall
            /\ okAt' = IF Acked(r) /\ okAt = 0 THEN att ELSE okAt
            /\ tmoAtOk' = IF Acked(r) /\ okAt = 0 THEN tmo ELSE tmoAtOk
            /\ tmo' = IF r.kind = "timeout" THEN tmo + 1 ELSE tmo
            /\ netErr' = (netErr \/ (audit /\ r.kind = "error"))
            /\ logical' = (logical \/ (audit /\ r.kind = "resp" /\ r.http_ok
                                        /\ r.body = "status_0"))
            /\ st1Fail' = (st1Fail \/ (r.kind = "resp" /\ ~r.http_ok
                                        /\ r.body = "status_1"))
       ELSE UNCHANGED <<okCall, okAt, tmoAtOk, tmo, netErr, logical, st1Fail>>

\* lines 207-249: the answer to the POST
Receive(r) ==
    /\ pc = "await"
    /\ Acked(r) => delivered[CurId] < MaxDeliveries
    /\ Observe(r)
    /\ IF r.kind = "timeout" THEN
            \* lines 210-218: log, continue
            IF RetryLeft(attempt)
            THEN /\ attempt' = attempt + 1
                 /\ resp' = NoResp
                 /\ pc' = "send"
                 /\ idx' = idx
            ELSE NextPost
       ELSE IF r.kind = "error" THEN
            \* line 222: break
            NextPost
       ELSE IF Confirmed(r) THEN
            \* lines 228-237: success, readable body, parsed, status == 1
            /\ resp' = r
            /\ pc' = "store"
            /\ UNCHANGED <<idx, attempt>>
       ELSE
            \* lines 228-249: not success, unreadable body, bad JSON or
            \* status /= 1: nothing is stored; break
            EndOfAttempt
    /\ UNCHANGED <<posts, db, disk, faults, lost, sent, w, att, persisted,
                   firstCall, fetchErr, audit>>

ReceiveTimeout == Receive(Timeout)
ReceiveError == Receive(NetError)
ReceiveResponse == \E r \in Responses : Receive(r)

\* line 239: kv_store(..) is Ok
KvStoreOk ==
    /\ pc = "store"
    /\ db' = kv_store(db, CurId)
    /\ pc' = "commit"
    /\ UNCHANGED <<posts, idx, attempt, resp, disk, delivered, faults, lost,
                   callObs, persisted, firstCall, fetchErr, audit>>

\* line 239: kv_store(..) is Err: unwrap() panics
KvStoreErr ==
    /\ pc = "store"
    /\ faults < MaxFaults
    /\ pc' = "panicked"
    /\ faults' = faults + 1
    /\ lost' = IF audit THEN lost \cup {CurId} ELSE lost
    /\ UNCHANGED <<posts, idx, attempt, resp, db, disk, delivered, callObs,
                   persisted, firstCall, fetchErr, audit>>

\* lines 240-249: commit() is Ok; log; break
CommitOk ==
    /\ pc = "commit"
    /\ disk' = commit(disk, db)
    /\ lost' = lost \ disk'
    /\ EndOfAttempt
    /\ UNCHANGED <<posts, db, delivered, faults, callObs, persisted, firstCall,
                   fetchErr, audit>>

\* line 240: commit() is Err: unwrap() panics; the handle is dropped while
\* unwinding, and closing it may or may not write the open transaction
CommitErr ==
    /\ pc = "commit"
    /\ faults < MaxFaults
    /\ pc' = "panicked"
    /\ disk' \in {disk, db}
    /\ faults' = faults + 1
    /\ lost' = IF audit THEN (lost \cup {CurId}) \ disk' ELSE lost
    /\ UNCHANGED <<posts, idx, attempt, resp, db, delivered, callObs,
                   persisted, firstCall, fetchErr, audit>>

\* ---- the process is stopped (or has panicked) and is started again ----------
\* lines 68-75: the store is opened from seen.udb; everything else is fresh
Restart ==
    /\ pc \in {"store", "commit"} => faults < MaxFaults
    /\ pc' = "reddit"
    /\ posts' = <<>>
    /\ idx' = 0
    /\ attempt' = 0
    /\ resp' = NoResp
    /\ db' = disk
    /\ persisted' = disk
    /\ firstCall' = TRUE
    /\ fetchErr' = FALSE
    /\ faults' = IF pc \in {"store", "commit"} THEN faults + 1 ELSE faults
    /\ ResetCall
    /\ UNCHANGED <<disk, delivered, lost, audit>>

Next ==
    \/ FetchRedditOk
    \/ FetchRedditErr
    \/ FetchPushshiftOk
    \/ FetchPushshiftErr
    \/ Sleep
    \/ PushoverReturn
    \/ SkipSeen
    \/ FoundNew
    \/ Send
    \/ ClientBuildErr
    \/ ReceiveTimeout
    \/ ReceiveError
    \/ ReceiveResponse
    \/ KvStoreOk
    \/ KvStoreErr
    \/ CommitOk
    \/ CommitErr
    \/ Restart

Spec == Init /\ [][Next]_vars

\* the same program, observed with the record of failures kept
SpecAudit == InitAudit /\ [][Next]_vars

TypeOK ==
    /\ pc \in {"reddit", "pushshift", "loop", "send", "await", "store",
               "commit", "sleep", "panicked"}
    /\ idx \in 0..Len(posts)
    /\ attempt \in 0..(POST_TIMEOUT_RETRY - 1)
    /\ db \subseteq Ids
    /\ disk \subseteq db
    /\ faults \in 0..MaxFaults
    /\ \A i \in Ids : delivered[i] \in 0..MaxDeliveries
    /\ audit \in BOOLEAN

\* ---- what is observed in the current pushover call -------------------------
BatchIds == { posts[k].id : k \in 1..Len(posts) }
\* the batch has been walked to its end and pushover is about to return
CallDone == pc = "loop" /\ idx = 0

\* every confirmed delivery so far was followed by a successful store and commit
CommitsOk == faults = 0

\* C1: provided every confirmed delivery was followed by a successful kv_store
\* and commit, no identifier is ever confirmed by the gateway more than once.
NoDuplicateDelivery ==
    CommitsOk => \A i \in Ids : delivered[i] <= 1

\* a later call meets an identifier that was delivered and committed before
NoDuplicateDeliveryWitness ==
    /\ CommitsOk
    /\ ~firstCall
    /\ pc = "loop"
    /\ idx > 0
    /\ delivered[CurId] = 1
    /\ CurId \in disk
    /\ ~(CurId \in sent)

\* C2: every identifier in the store (open handle or file) was confirmed by
\* the gateway before, and the store only grows by the identifier whose
\* request has just been answered HTTP-success with status 1: no timeout,
\* error, bad answer or fetch failure adds one.
SeenOnlyAfterAck ==
    /\ [](\A i \in db \cup disk : delivered[i] >= 1)
    /\ [][/\ \A i \in db' \ db : Acked(resp) /\ i = CurId
          /\ \A i \in disk' \ disk : i \in db]_vars

\* the counted post failed and stayed out of the store, another is in it
SeenOnlyAfterAckWitness ==
    /\ pc = "loop"
    /\ w /= 0 /\ ~(w \in db) /\ att > 0 /\ delivered[w] = 0
    /\ \E i \in sent : i \in db /\ delivered[i] = 1

\* C3: within one call the first requests go out oldest first: a post gets its
\* first request only if no newer post has had a request in this call.
OldestFirst ==
    pc = "send" /\ ~(CurId \in sent) =>
        \A p \in sent : Post(p).created_utc <= posts[idx].created_utc

\* C4: in one call an identifier is confirmed at most once, and once it is
\* confirmed no further request is sent for it: later occurrences are skipped.
OneDeliveryPerCall ==
    /\ okCall <= 1
    /\ okCall >= 1 => att = okAt
    /\ pc \in {"send", "await"} => ~(CurId \in db)
    /\ pc \in {"send", "await"} /\ CurId = w => okCall = 0

\* both occurrences of the counted identifier were walked, the first confirmed
OneDeliveryPerCallWitness ==
    /\ pc = "loop"
    /\ \E j \in 1..Len(posts) : \E k \in 1..Len(posts) :
          /\ idx < j /\ j < k
          /\ posts[j].id = w /\ posts[k].id = w
          /\ okCall = 1
          /\ att = okAt
          /\ w \in disk

\* C5: from process start until the first call the store is what the file
\* held, and when the first call after a start has walked its batch, requests
\* were sent for exactly the batch's identifiers that were not persisted.
RestartDispatch ==
    /\ firstCall /\ pc \in {"reddit", "pushshift", "sleep"} =>
          db = persisted /\ disk = persisted
    /\ firstCall /\ CallDone => sent = BatchIds \ persisted

\* the file held part of the batch; only the rest was sent, and delivered
RestartDispatchWitness ==
    /\ firstCall /\ CallDone
    /\ persisted /= {}
    /\ persisted \subseteq BatchIds
    /\ sent /= {}
    /\ sent = BatchIds \ persisted
    /\ \A i \in sent : i \in disk

\* C6: in one call no identifier gets more than POST_TIMEOUT_RETRY requests.
AtMostThreeAttempts ==
    att <= POST_TIMEOUT_RETRY

\* the first k requests for the counted identifier timed out (k = 1 or 2) and
\* the next one was confirmed
TimeoutsThenAck ==
    /\ okAt \in {2, 3}
    /\ tmoAtOk = okAt - 1

\* C7: such a post is confirmed once, gets no further request, has exactly k
\* timeouts logged, and is in the store once its answer was handled.
RetryThenDeliveredAndSeen ==
    TimeoutsThenAck =>
        /\ okCall = 1
        /\ att = okAt
        /\ tmo = okAt - 1
        /\ ~(pc = "store" /\ CurId = w) => w \in db

\* C8 (under SpecAudit): a post that met a non-timeout transport error gets
\* no further request in this call and stays out of the store.
ErrorAbandonsPost ==
    netErr => ~(pc = "await" /\ CurId = w) /\ ~(w \in db)

\* C9 (under SpecAudit): a post answered HTTP-success with a status other
\* than 1 gets no further request in this call and stays out of the store.
LogicalFailureAbandonsPost ==
    logical => ~(pc = "await" /\ CurId = w) /\ ~(w \in db)

\* C10: after startup nothing terminates the process.
NeverTerminates ==
    pc /= "panicked"

\* C11 (under SpecAudit): once the store write for a confirmed post has
\* failed, no further request is sent for that post.
NoRequestAfterStoreError ==
    pc = "await" => ~(CurId \in lost)

\* C12: a cycle in which reddit() or pushshift() failed sends no request and
\* dispatches nothing, leaves the store and the gateway's record alone, and
\* is followed by the next cycle once the sleep is over.
FetchFailureSkipsCycle ==
    /\ [](fetchErr => pc = "sleep" /\ sent = {} /\ posts = <<>>)
    /\ [][fetchErr' => db' = db /\ disk' = disk /\ delivered' = delivered]_vars
    /\ [][fetchErr /\ ~fetchErr' => pc' = "reddit"]_vars

\* pushshift (or reddit) failed in a cycle of a process that has delivered
\* before; the process sleeps with its store as it was
FetchFailureSkipsCycleWitness ==
    /\ fetchErr
    /\ pc = "sleep"
    /\ ~firstCall
    /\ db /= {}
    /\ db = disk

\* C13 as stated: a post answered with body status 1 is marked seen, whatever
\* the HTTP status of the answer.
StatusOneMarksSeen ==
    st1Fail => w \in db

\* C13 amended: status 1 counts only under an HTTP-success status: a post
\* answered status 1 without HTTP-success, and not confirmed otherwise, stays
\* out of the store; a post answered status 1 with HTTP-success is in the
\* store unless the kv_store that follows failed.
StatusOneNeedsHttpSuccess ==
    /\ st1Fail /\ okCall = 0 => ~(w \in db)
    /\ okCall >= 1 /\ ~(pc \in {"store", "panicked"} /\ CurId = w) => w \in db

\* one occurrence was answered status 1 without HTTP-success and left unseen,
\* the next occurrence was answered status 1 with HTTP-success and stored
StatusOneNeedsHttpSuccessWitness ==
    /\ pc = "loop"
    /\ st1Fail
    /\ okCall = 1 /\ att = 2
    /\ w \in disk

\* the counted identifier is the post the attempt loop is working on
InHand ==
    pc \in {"send", "await", "store", "commit", "panicked"} /\ CurId = w

\* C14: posts are handled one after the other: whenever a request is about to
\* go out or is in flight nothing is stored but uncommitted, and a post that
\* had a request in this call and is no longer being worked on is in the file
\* exactly if it was confirmed.
SequentialDispatch ==
    /\ pc \in {"send", "await"} => db = disk
    /\ att > 0 /\ ~InHand => (w \in disk <=> okCall >= 1)

\* the counted post was confirmed and committed, the next post's request is
\* in flight
SequentialDispatchWitness ==
    /\ pc = "await"
    /\ CurId /= w
    /\ okCall = 1
    /\ w \in disk
    /\ db = disk

\* every post still to be walked is in the store; at the start of a call this
\* is a batch that is empty or entirely seen
AllSeen ==
    pc = "loop" /\ \A k \in 1..idx : posts[k].id \in db

\* C15: while the posts still to be walked are all seen (from the start of
\* the call, when the batch is empty or entirely seen), no step sends a
\* request or changes the store, the file or the gateway's record.
NoOpCycle ==
    [][AllSeen => /\ pc' \in {"loop", "sleep", "reddit"}
                  /\ sent' \subseteq sent
                  /\ db' \subseteq db
                  /\ disk' = disk
                  /\ delivered' = delivered]_vars

\* a non-empty batch, entirely seen, has been walked without any request
NoOpCycleWitness ==
    /\ CallDone
    /\ Len(posts) > 0
    /\ BatchIds \subseteq db
    /\ sent = {}
    /\ db = disk

\* the HTML entities and the characters they stand for
Entities ==
    { [text |-> <<"&", "a", "m", "p", ";">>, char |-> "&"],
      [text |-> <<"&", "l", "t", ";">>, char |-> "<"],
      [text |-> <<"&", "g", "t", ";">>, char |-> ">"] }

StartsWith(s, t) == Len(t) <= Len(s) /\ SubSeq(s, 1, Len(t)) = t

\* a text with every entity replaced by its character
RECURSIVE HtmlDecode(_)
HtmlDecode(s) ==
    IF s = <<>> THEN <<>>
    ELSE IF \E e \in Entities : StartsWith(s, e.text)
    THEN LET e == CHOOSE x \in Entities : StartsWith(s, x.text)
         IN  <<e.char>> \o HtmlDecode(SubSeq(s, Len(e.text) + 1, Len(s)))
    ELSE <<Head(s)>> \o HtmlDecode(Tail(s))

\* C16: the message of every request in flight reads as the HTML-decoded
\* title of its post, under every configuration.
MessageIsDecodedTitle ==
    pc = "await" =>
        \A c \in Configs :
            Chars(Params(c, posts[idx]).message)
                = HtmlDecode(Chars(posts[idx].title))

\* C17: the title of every request in flight names the configured subreddit,
\* under every configuration.
TitleNamesSubreddit ==
    pc = "await" =>
        \A c \in Configs :
            Params(c, posts[idx]).title = <<"New post on r/", c.subreddit>>
\* C18: once the first three requests for a post have all timed out, no
\* fourth request is sent for it in this call and it stays out of the store,
\* while the call goes on walking the batch and returns only at its end.
ThreeTimeoutsAbandon ==
    [][att = POST_TIMEOUT_RETRY /\ tmo = POST_TIMEOUT_RETRY =>
          /\ att' <= POST_TIMEOUT_RETRY
          /\ ~(w \in db')
          /\ (pc' = "sleep" => idx = 0)]_vars

\* the process is inside a pushover call
InCall == pc \in {"loop", "send", "await", "store", "commit"}

\* how far the call is from its return: posts still to walk, then the steps
\* left for the post in hand (two per attempt left, then store and commit)
Remaining ==
    10 * idx + CASE pc = "loop"   -> 9
                 [] pc = "send"   -> 2 * (POST_TIMEOUT_RETRY - attempt) + 2
                 [] pc = "await"  -> 2 * (POST_TIMEOUT_RETRY - attempt) + 1
                 [] pc = "store"  -> 2
                 [] pc = "commit" -> 1
                 [] OTHER         -> 0

\* requests the call may send for the counted identifier: three for each of
\* its occurrences in the batch
Occurrences(i) == Cardinality({ k \in 1..Len(posts) : posts[k].id = i })

\* C20: every pushover call returns: the requests for a post never exceed
\* three per occurrence in the batch, and every step of a call either brings
\* it closer to its return, or is its return to main's sleep (or the process
\* is stopped from outside and started again).
DispatchTerminates ==
    /\ [](w /= 0 => att <= POST_TIMEOUT_RETRY * Occurrences(w))
    /\ [][InCall => \/ (InCall' /\ Remaining' < Remaining)
                     \/ (pc' = "sleep" /\ idx = 0)
                     \/ pc' = "reddit"]_vars
\* ---- the process left running, its store working --------------------------
\* the steps of main and pushover when kv_store and commit return Ok and the
\* process is not stopped from outside
Run ==
    \/ FetchRedditOk
    \/ FetchRedditErr
    \/ FetchPushshiftOk
    \/ FetchPushshiftErr
    \/ Sleep
    \/ PushoverReturn
    \/ SkipSeen
    \/ FoundNew
    \/ Send
    \/ ClientBuildErr
    \/ ReceiveTimeout
    \/ ReceiveError
    \/ ReceiveResponse
    \/ KvStoreOk
    \/ CommitOk

\* main's loop keeps running while it can: fetches return, requests are
\* answered or time out after REQ_TIMEOUT, the sleep ends (a process that has
\* panicked takes no further step)
LiveSpec == Init /\ [][Run]_vars /\ WF_vars(Run)

\* a request for identifier g is in flight
Requested(g) == pc = "await" /\ CurId = g

\* C19: if identifier g keeps being in the batch pushover is called with, and
\* from some point on every request for g is answered HTTP-success with
\* status 1, then from some point on g is in seen.udb and no request for it
\* is prepared or in flight.
EventuallySeen ==
    \A g \in Ids :
        /\ []<>(InCall /\ g \in BatchIds)
        /\ <>[][Requested(g) => delivered'[g] > delivered[g]]_vars
        => <>[](g \in disk /\ ~(pc \in {"send", "await"} /\ CurId = g))

\* a call after the first has walked a batch that holds the counted
\* identifier, confirmed and committed earlier, without a request for it
EventuallySeenWitness ==
    /\ ~firstCall
    /\ CallDone
    /\ w \in BatchIds
    /\ w \in disk
    /\ delivered[w] = 1
    /\ att = 0
    /\ faults = 0
====
